---- MODULE Spec2Model ----
(***************************************************************************)
(* Model of serenity_analysis/word_endings.py: the loader of the           *)
(* word/count table, the per-letter aggregation of word endings and        *)
(* beginnings, the sort step, the keyboard-side summary and the reporter   *)
(* in main.                                                                *)
(*                                                                         *)
(* Text is a sequence of one-character strings.  A Python dict is a        *)
(* sequence of <<key, value>> pairs with unique keys, in insertion order.  *)
(***************************************************************************)
EXTENDS Integers, Sequences, FiniteSets, TLC

VARIABLES
    file,            \* the text of google-books-common-words.txt
    sort_count,      \* args.sort_count
    key_to_side,     \* the module-level letter -> side table
    pc,              \* position in main (or in the harness of a function)
    reader,          \* load_word_counts: the rows of csv.reader(f, ...)
    row_no,          \* load_word_counts: rows the loop has been through
    word_counts,     \* counts / word_counts: the FrequencyTable
    endings,         \* main's endings (the mapping under test in the harnesses)
    beginnings,      \* main's beginnings
    arg,             \* summarize_sides: the parameter `endings`
    k,               \* summarize_sides: position of the for loop in arg
    acc,             \* summarize_sides: the local side_counts
    total,           \* summarize_sides: the local total
    caller,          \* summarize_sides: where the call returns to
    side_counts,     \* main's side_counts
    grand_total,     \* main's grand_total
    beg_side_counts, \* main's beg_side_counts
    beg_grand_total, \* main's beg_grand_total
    out,             \* the lines printed so far
    results,         \* harness: what successive calls of summarize_sides returned
    sorted_out       \* harness: what sort_endings returned

vars == <<file, sort_count, key_to_side, pc, reader, row_no, word_counts, endings,
          beginnings, arg, k, acc, total, caller, side_counts, grand_total,
          beg_side_counts, beg_grand_total, out, results, sorted_out>>

(***************************************************************************)
(* Bounds of the model.                                                    *)
(***************************************************************************)
MaxLines == 2
MaxLetters == 3
MaxCount == 2

(***************************************************************************)
(* Characters.                                                             *)
(***************************************************************************)
TAB == "\t"
NL == "\n"
QUOTE == "\""

ascii_lowercase ==
    <<"a", "b", "c", "d", "e", "f", "g", "h", "i", "j", "k", "l", "m",
      "n", "o", "p", "q", "r", "s", "t", "u", "v", "w", "x", "y", "z">>

ascii_uppercase ==
    <<"A", "B", "C", "D", "E", "F", "G", "H", "I", "J", "K", "L", "M",
      "N", "O", "P", "Q", "R", "S", "T", "U", "V", "W", "X", "Y", "Z">>

Digits == <<"0", "1", "2", "3", "4", "5", "6", "7", "8", "9">>

\* c in s, for a one-character c and a sequence of characters s
InChars(c, s) == \E n \in 1..Len(s) : s[n] = c

IndexOf(c, s) == CHOOSE n \in 1..Len(s) : s[n] = c

\* str.lower() of one character
Lower(c) ==
    IF InChars(c, ascii_uppercase)
    THEN ascii_lowercase[IndexOf(c, ascii_uppercase)]
    ELSE c

\* ord(c): the code point, which orders one-character strings
Ord(c) ==
    IF InChars(c, ascii_lowercase) THEN 96 + IndexOf(c, ascii_lowercase)
    ELSE IF InChars(c, ascii_uppercase) THEN 64 + IndexOf(c, ascii_uppercase)
    ELSE IF InChars(c, Digits) THEN 47 + IndexOf(c, Digits)
    ELSE IF c = "-" THEN 45
    ELSE IF c = "+" THEN 43
    ELSE IF c = "\"" THEN 34
    ELSE IF c = " " THEN 32
    ELSE IF c = "\n" THEN 10
    ELSE 9

(***************************************************************************)
(* Insertion-ordered dicts.                                                *)
(***************************************************************************)
Keys(d) == {d[n][1] : n \in 1..Len(d)}

HasKey(d, key) == \E n \in 1..Len(d) : d[n][1] = key

\* d.get(key, default)
Get(d, key, default) ==
    IF HasKey(d, key)
    THEN d[CHOOSE n \in 1..Len(d) : d[n][1] = key][2]
    ELSE default

\* d[key] = value: an existing key keeps its place, a new key goes last
DictSet(d, key, value) ==
    IF HasKey(d, key)
    THEN [n \in 1..Len(d) |-> IF d[n][1] = key THEN <<key, value>> ELSE d[n]]
    ELSE Append(d, <<key, value>>)

(***************************************************************************)
(* csv.reader(f, delimiter="\t") with the default dialect: quotechar '"',  *)
(* doublequote, QUOTE_MINIMAL, not strict.  The reader is a character      *)
(* automaton; st is its state, field the field being collected, fields the *)
(* fields of the record being collected, recs the records handed out.      *)
(* The file is read in text mode, so every line break is "\n".             *)
(***************************************************************************)
RECURSIVE CsvScan(_, _, _, _, _, _)
CsvScan(text, n, st, field, fields, recs) ==
    IF n > Len(text)
    THEN \* the file is exhausted
         IF st = "START_RECORD" THEN recs ELSE Append(recs, Append(fields, field))
    ELSE LET c == text[n] IN
         CASE st = "START_RECORD" /\ c = NL ->
                CsvScan(text, n + 1, "START_RECORD", <<>>, <<>>, Append(recs, <<>>))
           [] st = "START_FIELD" /\ c = NL ->
                CsvScan(text, n + 1, "START_RECORD", <<>>, <<>>,
                        Append(recs, Append(fields, field)))
           [] st \in {"START_RECORD", "START_FIELD"} /\ c = QUOTE ->
                CsvScan(text, n + 1, "IN_QUOTED_FIELD", field, fields, recs)
           [] st \in {"START_RECORD", "START_FIELD"} /\ c = TAB ->
                CsvScan(text, n + 1, "START_FIELD", <<>>, Append(fields, field), recs)
           [] st \in {"START_RECORD", "START_FIELD"} /\ c \notin {NL, QUOTE, TAB} ->
                CsvScan(text, n + 1, "IN_FIELD", Append(field, c), fields, recs)
           [] st = "IN_FIELD" /\ c = NL ->
                CsvScan(text, n + 1, "START_RECORD", <<>>, <<>>,
                        Append(recs, Append(fields, field)))
           [] st = "IN_FIELD" /\ c = TAB ->
                CsvScan(text, n + 1, "START_FIELD", <<>>, Append(fields, field), recs)
           [] st = "IN_FIELD" /\ c \notin {NL, TAB} ->
                CsvScan(text, n + 1, "IN_FIELD", Append(field, c), fields, recs)
           [] st = "IN_QUOTED_FIELD" /\ c = QUOTE ->
                CsvScan(text, n + 1, "QUOTE_IN_QUOTED_FIELD", field, fields, recs)
           [] st = "IN_QUOTED_FIELD" /\ c # QUOTE ->
                CsvScan(text, n + 1, "IN_QUOTED_FIELD", Append(field, c), fields, recs)
           [] st = "QUOTE_IN_QUOTED_FIELD" /\ c = QUOTE ->
                CsvScan(text, n + 1, "IN_QUOTED_FIELD", Append(field, c), fields, recs)
           [] st = "QUOTE_IN_QUOTED_FIELD" /\ c = TAB ->
                CsvScan(text, n + 1, "START_FIELD", <<>>, Append(fields, field), recs)
           [] st = "QUOTE_IN_QUOTED_FIELD" /\ c = NL ->
                CsvScan(text, n + 1, "START_RECORD", <<>>, <<>>,
                        Append(recs, Append(fields, field)))
           [] st = "QUOTE_IN_QUOTED_FIELD" /\ c \notin {QUOTE, TAB, NL} ->
                CsvScan(text, n + 1, "IN_FIELD", Append(field, c), fields, recs)

\* the rows `for row in reader` iterates over
CsvReader(text) == CsvScan(text, 1, "START_RECORD", <<>>, <<>>, <<>>)

(***************************************************************************)
(* int(count) on a field: surrounding blanks are stripped, one sign is     *)
(* allowed, and the rest must be one or more decimal digits.  NoInt stands *)
(* for the ValueError.                                                     *)
(***************************************************************************)
NoInt == [ok |-> FALSE, value |-> 0]

RECURSIVE Strip(_)
Strip(s) ==
    IF s # <<>> /\ Head(s) = " " THEN Strip(Tail(s))
    ELSE IF s # <<>> /\ s[Len(s)] = " " THEN Strip(SubSeq(s, 1, Len(s) - 1))
    ELSE s

RECURSIVE DigitsValue(_, _)
DigitsValue(s, n) ==
    IF s = <<>> THEN n
    ELSE DigitsValue(Tail(s), 10 * n + (IndexOf(Head(s), Digits) - 1))

ParseInt(s) ==
    LET t == Strip(s)
        signed == t # <<>> /\ Head(t) \in {"+", "-"}
        body == IF signed THEN Tail(t) ELSE t
    IN  IF body = <<>> \/ \E n \in 1..Len(body) : ~InChars(body[n], Digits)
        THEN NoInt
        ELSE [ok |-> TRUE,
              value |-> IF signed /\ Head(t) = "-"
                        THEN 0 - DigitsValue(body, 0)
                        ELSE DigitsValue(body, 0)]

(***************************************************************************)
(* load_word_counts                                                        *)
(***************************************************************************)
Threshold == 500000

\* the loop body without the threshold test
LoadRowAnyCount(counts, row) ==
    IF Len(row) # 2 THEN counts
    ELSE IF ParseInt(row[2]).ok
         THEN DictSet(counts, row[1], ParseInt(row[2]).value)
         ELSE counts

\* the loop body keeping the first count seen for a word
LoadRowFirstWins(counts, row) ==
    IF Len(row) # 2 THEN counts
    ELSE LET count == ParseInt(row[2]) IN
         IF count.ok /\ count.value >= Threshold /\ ~HasKey(counts, row[1])
         THEN DictSet(counts, row[1], count.value)
         ELSE counts

\* one pass of the body of `for row in reader`
LoadRow(counts, row) ==
    IF Len(row) # 2 THEN counts
    ELSE LET count == ParseInt(row[2]) IN
         IF count.ok /\ count.value >= Threshold
         THEN DictSet(counts, row[1], count.value)
         ELSE counts

RECURSIVE LoadRows(_, _)
LoadRows(counts, rows) ==
    IF rows = <<>> THEN counts
    ELSE LoadRows(LoadRow(counts, Head(rows)), Tail(rows))

\* the dict load_word_counts returns for a file with this text
LoadWordCounts(text) == LoadRows(<<>>, CsvReader(text))

(***************************************************************************)
(* count_word_endings, count_word_beginnings                               *)
(***************************************************************************)
\* sorted(items) of a dict: by key, the keys being distinct
RECURSIVE InsertByKey(_, _)
InsertByKey(item, s) ==
    IF s = <<>> THEN <<item>>
    ELSE IF Ord(item[1]) < Ord(Head(s)[1]) THEN <<item>> \o s
    ELSE <<Head(s)>> \o InsertByKey(item, Tail(s))

RECURSIVE SortedByKey(_)
SortedByKey(d) ==
    IF d = <<>> THEN <<>>
    ELSE InsertByKey(d[Len(d)], SortedByKey(SubSeq(d, 1, Len(d) - 1)))

\* the loop body without .lower()
AddLetterNoLower(totals, char, count) ==
    IF InChars(char, ascii_lowercase)
    THEN DictSet(totals, char, Get(totals, char, 0) + count)
    ELSE totals

\* one pass of the for loop: char is the selected character of the word
AddLetter(totals, char, count) ==
    IF InChars(Lower(char), ascii_lowercase)
    THEN DictSet(totals, Lower(char), Get(totals, Lower(char), 0) + count)
    ELSE totals

RECURSIVE EndingsLoop(_, _)
EndingsLoop(totals, items) ==
    IF items = <<>> THEN totals
    ELSE LET word == Head(items)[1]
             count == Head(items)[2]
         IN  IF word = <<>> THEN EndingsLoop(totals, Tail(items))
             ELSE EndingsLoop(AddLetter(totals, word[Len(word)], count), Tail(items))

RECURSIVE BeginningsLoop(_, _)
BeginningsLoop(totals, items) ==
    IF items = <<>> THEN totals
    ELSE LET word == Head(items)[1]
             count == Head(items)[2]
         IN  IF word = <<>> THEN BeginningsLoop(totals, Tail(items))
             ELSE BeginningsLoop(AddLetter(totals, word[1], count), Tail(items))

count_word_endings(counts) == SortedByKey(EndingsLoop(<<>>, counts))

count_word_beginnings(counts) == SortedByKey(BeginningsLoop(<<>>, counts))

(***************************************************************************)
(* sort_endings                                                            *)
(***************************************************************************)
\* sorted(items, key=count, reverse=True): descending, equal counts keep
\* the order they had
RECURSIVE InsertByCountDesc(_, _)
InsertByCountDesc(item, s) ==
    IF s = <<>> THEN <<item>>
    ELSE IF item[2] >= Head(s)[2] THEN <<item>> \o s
    ELSE <<Head(s)>> \o InsertByCountDesc(item, Tail(s))

RECURSIVE SortedByCountDesc(_)
SortedByCountDesc(d) ==
    IF d = <<>> THEN <<>>
    ELSE InsertByCountDesc(Head(d), SortedByCountDesc(Tail(d)))

RECURSIVE Reverse(_)
Reverse(s) == IF s = <<>> THEN <<>> ELSE Append(Reverse(Tail(s)), Head(s))

RECURSIVE InsertByCountAsc(_, _)
InsertByCountAsc(item, s) ==
    IF s = <<>> THEN <<item>>
    ELSE IF item[2] <= Head(s)[2] THEN <<item>> \o s
    ELSE <<Head(s)>> \o InsertByCountAsc(item, Tail(s))

RECURSIVE SortedByCountAsc(_)
SortedByCountAsc(d) ==
    IF d = <<>> THEN <<>>
    ELSE InsertByCountAsc(Head(d), SortedByCountAsc(Tail(d)))

\* a sort by count that is ascending and then reversed: equal counts swap
sort_endings_reversed(d, by_count) ==
    IF by_count THEN Reverse(SortedByCountAsc(d)) ELSE SortedByKey(d)

\* a sort by count that keys its result by count: letters of equal count
\* collapse into the first of them
RECURSIVE KeepFirstOfCount(_)
KeepFirstOfCount(d) ==
    IF d = <<>> THEN <<>>
    ELSE LET front == KeepFirstOfCount(SubSeq(d, 1, Len(d) - 1))
             item == d[Len(d)]
         IN  IF \E n \in 1..Len(front) : front[n][2] = item[2]
             THEN front
             ELSE Append(front, item)

sort_endings_unique_counts(d, by_count) ==
    IF by_count THEN SortedByCountDesc(KeepFirstOfCount(d)) ELSE SortedByKey(d)

sort_endings(d, by_count) ==
    IF by_count THEN SortedByCountDesc(d) ELSE SortedByKey(d)

(***************************************************************************)
(* keyboard and key_to_side                                                *)
(***************************************************************************)
keyboard_without_b ==
    << [left |-> <<"q", "l", "g", "w", "v">>, right |-> <<"j", "f", "o", "u", "-">>],
       [left |-> <<"r", "n", "t", "s", "p">>, right |-> <<"y", "h", "e", "a", "i">>],
       [left |-> <<"x", "z", "m", "c">>, right |-> <<"k", "d", "'", ",", ".">>] >>

keyboard ==
    << [left |-> <<"q", "l", "g", "w", "v">>, right |-> <<"j", "f", "o", "u", "-">>],
       [left |-> <<"r", "n", "t", "s", "p">>, right |-> <<"y", "h", "e", "a", "i">>],
       [left |-> <<"x", "z", "m", "c", "b">>, right |-> <<"k", "d", "'", ",", ".">>] >>

\* for key in keys: key_to_side[key] = side
RECURSIVE AssignKeys(_, _, _)
AssignKeys(table, side, keys) ==
    IF keys = <<>> THEN table
    ELSE AssignKeys(DictSet(table, Head(keys), side), side, Tail(keys))

\* for row in keyboard.values(): for side, keys in row.items(): ...
RECURSIVE BuildKeyToSide(_, _)
BuildKeyToSide(table, rows) ==
    IF rows = <<>> THEN table
    ELSE BuildKeyToSide(
             AssignKeys(AssignKeys(table, "left", Head(rows).left),
                        "right", Head(rows).right),
             Tail(rows))

\* key_to_side once the module is loaded
KeyToSide == BuildKeyToSide(<<>>, keyboard)

(***************************************************************************)
(* summarize_sides                                                         *)
(***************************************************************************)
None == "None"

NewSideCounts == [left |-> 0, right |-> 0, unknown |-> 0]

\* the loop body without its else branch
SideStepNoUnknown(sc, table, letter, count) ==
    LET side == Get(table, letter, None) IN
    IF side \in {"left", "right"}
    THEN [sc EXCEPT ![side] = @ + count]
    ELSE sc

\* the body of the for loop on one (letter, count), on the local side_counts
SideStep(sc, table, letter, count) ==
    LET side == Get(table, letter, None) IN
    IF side \in {"left", "right"}
    THEN [sc EXCEPT ![side] = @ + count]
    ELSE [sc EXCEPT !.unknown = @ + count]

(***************************************************************************)
(* The percentages of main: side_total / grand_total * 100 behind the      *)
(* guard `if grand_total else 0`.  A percentage is kept in hundredths of a *)
(* percent, the resolution at which it is printed; a division by zero      *)
(* raises.                                                                 *)
(***************************************************************************)
Percent(side_total, denominator) ==
    IF denominator = 0
    THEN [raised |-> TRUE, value |-> 0]
    ELSE LET whole == (side_total * 100) \div denominator
             rest == (side_total * 100) % denominator
         IN  [raised |-> FALSE, value |-> whole * 100 + (rest * 100) \div denominator]

\* the percentage without the guard
PctUnguarded(side_total, denominator) == Percent(side_total, denominator)

Pct(side_total, denominator) ==
    IF denominator # 0
    THEN Percent(side_total, denominator)
    ELSE [raised |-> FALSE, value |-> 0]

(***************************************************************************)
(* Input files: up to MaxLines lines, each ended by a line break, drawn    *)
(* from lines that are well formed, below the threshold, repeated, not a   *)
(* number, of the wrong number of fields, quoted or empty.                 *)
(***************************************************************************)
Word_ab == <<"a", "b">>
Word_Ba == <<"B", "a">>
Word_b_dash == <<"b", "-">>
Word_dash_B == <<"-", "B">>

Text600000 == <<"6", "0", "0", "0", "0", "0">>
Text500000 == <<"5", "0", "0", "0", "0", "0">>
Text499999 == <<"4", "9", "9", "9", "9", "9">>
Text700000 == <<"7", "0", "0", "0", "0", "0">>
TextNaN == <<"N", "a", "N">>

Lines ==
    { Word_ab \o <<TAB>> \o Text600000,
      Word_ab \o <<TAB>> \o Text499999,
      Word_ab \o <<TAB>> \o Text700000,
      Word_Ba \o <<TAB>> \o Text500000,
      Word_b_dash \o <<TAB>> \o Text600000,
      Word_dash_B \o <<TAB>> \o Text600000,
      <<TAB>> \o Text600000,
      Word_Ba \o <<TAB, " ">> \o Text600000,
      Word_ab \o <<TAB>> \o TextNaN,
      Word_ab,
      Word_ab \o <<TAB>> \o Word_Ba \o <<TAB>> \o Text600000,
      <<QUOTE>> \o Word_ab,
      <<>> }

RECURSIVE JoinLines(_)
JoinLines(ls) ==
    IF ls = <<>> THEN <<>> ELSE Head(ls) \o <<NL>> \o JoinLines(Tail(ls))

Files == {JoinLines(ls) : ls \in UNION {[1..n -> Lines] : n \in 0..MaxLines}}

(***************************************************************************)
(* LetterTotals for the harnesses of sort_endings and summarize_sides: up  *)
(* to MaxLetters distinct letters in any order, counts up to MaxCount; and *)
(* letter -> side tables: the program's, an empty one, and one with a      *)
(* value that is neither left nor right.                                   *)
(***************************************************************************)
HarnessLetters == {"a", "b", "q"}

Mappings ==
    {d \in UNION {[1..n -> HarnessLetters \X (0..MaxCount)] : n \in 0..MaxLetters} :
        \A m, n \in 1..Len(d) : m # n => d[m][1] # d[n][1]}

Layouts == {KeyToSide, <<>>, <<<<"a", "middle">>, <<"b", "left">>>>}

(***************************************************************************)
(* main                                                                    *)
(***************************************************************************)
Init ==
    /\ file \in Files
    /\ sort_count \in BOOLEAN
    /\ key_to_side = KeyToSide
    /\ pc = "open"
    /\ reader = <<>>
    /\ row_no = 0
    /\ word_counts = <<>>
    /\ endings = <<>>
    /\ beginnings = <<>>
    /\ arg = <<>>
    /\ k = 0
    /\ acc = NewSideCounts
    /\ total = 0
    /\ caller = "none"
    /\ side_counts = NewSideCounts
    /\ grand_total = 0
    /\ beg_side_counts = NewSideCounts
    /\ beg_grand_total = 0
    /\ out = <<>>
    /\ results = <<>>
    /\ sorted_out = <<>>

\* load_word_counts is called: counts = {}, the file is opened and handed
\* to csv.reader
Open ==
    /\ pc = "open"
    /\ word_counts' = <<>>
    /\ reader' = CsvReader(file)
    /\ row_no' = 0
    /\ pc' = "load"
    /\ UNCHANGED <<file, sort_count, key_to_side, endings, beginnings, arg, k,
                   acc, total, caller, side_counts, grand_total, beg_side_counts,
                   beg_grand_total, out, results, sorted_out>>

\* load_word_counts: one pass of `for row in reader`
LoadRowStep ==
    /\ pc = "load"
    /\ row_no < Len(reader)
    /\ word_counts' = LoadRow(word_counts, reader[row_no + 1])
    /\ row_no' = row_no + 1
    /\ UNCHANGED <<file, sort_count, key_to_side, pc, reader, endings, beginnings,
                   arg, k, acc, total, caller, side_counts, grand_total,
                   beg_side_counts, beg_grand_total, out, results, sorted_out>>

\* load_word_counts: the reader is exhausted, return counts
LoadReturn ==
    /\ pc = "load"
    /\ row_no = Len(reader)
    /\ pc' = "endings"
    /\ UNCHANGED <<file, sort_count, key_to_side, reader, row_no, word_counts,
                   endings, beginnings, arg, k, acc, total, caller, side_counts,
                   grand_total, beg_side_counts, beg_grand_total, out, results,
                   sorted_out>>

\* for letter, total in d.items(): the line printed for each
LetterLines(section, d) == [n \in 1..Len(d) |-> <<section, d[n][1], d[n][2]>>]

\* endings = sort_endings(count_word_endings(word_counts), args.sort_count)
\* and the endings block
Endings ==
    /\ pc = "endings"
    /\ endings' = sort_endings(count_word_endings(word_counts), sort_count)
    /\ out' = out \o <<<<"header", "Word endings (a-z):">>>>
                  \o LetterLines("ending", endings')
    /\ pc' = "beginnings"
    /\ UNCHANGED <<file, sort_count, key_to_side, reader, row_no, word_counts, beginnings,
                   arg, k, acc, total, caller, side_counts, grand_total,
                   beg_side_counts, beg_grand_total, results, sorted_out>>

\* beginnings = sort_endings(count_word_beginnings(word_counts), args.sort_count)
\* and the beginnings block
Beginnings ==
    /\ pc = "beginnings"
    /\ beginnings' = sort_endings(count_word_beginnings(word_counts), sort_count)
    /\ out' = out \o <<<<"header", "Word beginnings (a-z):">>>>
                  \o LetterLines("beginning", beginnings')
    /\ pc' = "call_summarize_endings"
    /\ UNCHANGED <<file, sort_count, key_to_side, reader, row_no, word_counts, endings, arg,
                   k, acc, total, caller, side_counts, grand_total, beg_side_counts,
                   beg_grand_total, results, sorted_out>>

\* summarize_sides is entered without resetting its accumulators
SummarizeEnterKeep ==
    /\ pc \in {"call_summarize_endings", "call_summarize_beginnings", "call_summarize"}
    /\ caller' = pc
    /\ arg' = IF pc = "call_summarize_beginnings" THEN beginnings ELSE endings
    /\ k' = 1
    /\ pc' = "summarize_loop"
    /\ UNCHANGED <<file, sort_count, key_to_side, reader, row_no, word_counts, endings,
                   beginnings, acc, total, side_counts, grand_total, beg_side_counts,
                   beg_grand_total, out, results, sorted_out>>

\* summarize_sides is called: side_counts = {...}; total = 0
SummarizeEnter ==
    /\ pc \in {"call_summarize_endings", "call_summarize_beginnings", "call_summarize"}
    /\ caller' = pc
    /\ arg' = IF pc = "call_summarize_beginnings" THEN beginnings ELSE endings
    /\ acc' = NewSideCounts
    /\ total' = 0
    /\ k' = 1
    /\ pc' = "summarize_loop"
    /\ UNCHANGED <<file, sort_count, key_to_side, reader, row_no, word_counts, endings,
                   beginnings, side_counts, grand_total, beg_side_counts,
                   beg_grand_total, out, results, sorted_out>>

\* summarize_sides: one pass of `for letter, count in endings.items()`
SummarizeStep ==
    /\ pc = "summarize_loop"
    /\ k <= Len(arg)
    /\ total' = total + arg[k][2]
    /\ acc' = SideStep(acc, key_to_side, arg[k][1], arg[k][2])
    /\ k' = k + 1
    /\ UNCHANGED <<file, sort_count, key_to_side, pc, reader, row_no, word_counts, endings,
                   beginnings, arg, caller, side_counts, grand_total,
                   beg_side_counts, beg_grand_total, out, results, sorted_out>>

\* side_counts, grand_total = summarize_sides(endings)
ReturnToEndings ==
    /\ pc = "summarize_loop"
    /\ k > Len(arg)
    /\ caller = "call_summarize_endings"
    /\ side_counts' = acc
    /\ grand_total' = total
    /\ pc' = "report_endings"
    /\ UNCHANGED <<file, sort_count, key_to_side, reader, row_no, word_counts, endings,
                   beginnings, arg, k, acc, total, caller, beg_side_counts,
                   beg_grand_total, out, results, sorted_out>>

\* beg_side_counts, beg_grand_total = summarize_sides(beginnings)
ReturnToBeginnings ==
    /\ pc = "summarize_loop"
    /\ k > Len(arg)
    /\ caller = "call_summarize_beginnings"
    /\ beg_side_counts' = acc
    /\ beg_grand_total' = total
    /\ pc' = "report_beginnings"
    /\ UNCHANGED <<file, sort_count, key_to_side, reader, row_no, word_counts, endings,
                   beginnings, arg, k, acc, total, caller, side_counts, grand_total,
                   out, results, sorted_out>>

\* one side summary: the Left and Right lines, and the Unknown line if its
\* bucket is not zero; an uncaught ZeroDivisionError ends the run
SideSummary(section, title, sc, denominator) ==
    LET left == Pct(sc.left, denominator)
        right == Pct(sc.right, denominator)
        unknown == Pct(sc.unknown, denominator)
        sides == <<<<"header", title>>,
                   <<section, "Left", left.value>>,
                   <<section, "Right", right.value>>>>
    IN  IF left.raised \/ right.raised \/ (sc.unknown # 0 /\ unknown.raised)
        THEN [raised |-> TRUE, lines |-> <<>>]
        ELSE [raised |-> FALSE,
              lines |-> IF sc.unknown # 0
                        THEN Append(sides, <<section, "Unknown", sc.unknown, unknown.value>>)
                        ELSE sides]

\* the block "Keyboard side summary (by letter endings)"
ReportEndings ==
    /\ pc = "report_endings"
    /\ LET summary == SideSummary("endings side", "Keyboard side summary (by letter endings):",
                                  side_counts, grand_total)
       IN  /\ out' = out \o summary.lines
           /\ pc' = IF summary.raised THEN "ZeroDivisionError"
                    ELSE "call_summarize_beginnings"
    /\ UNCHANGED <<file, sort_count, key_to_side, reader, row_no, word_counts, endings,
                   beginnings, arg, k, acc, total, caller, side_counts, grand_total,
                   beg_side_counts, beg_grand_total, results, sorted_out>>

\* the block "Keyboard side summary (by word beginnings)"
ReportBeginnings ==
    /\ pc = "report_beginnings"
    /\ LET summary == SideSummary("beginnings side",
                                  "Keyboard side summary (by word beginnings):",
                                  beg_side_counts, beg_grand_total)
       IN  /\ out' = out \o summary.lines
           /\ pc' = IF summary.raised THEN "ZeroDivisionError" ELSE "combined"
    /\ UNCHANGED <<file, sort_count, key_to_side, reader, row_no, word_counts, endings,
                   beginnings, arg, k, acc, total, caller, side_counts, grand_total,
                   beg_side_counts, beg_grand_total, results, sorted_out>>

\* the combined percentages and their two lines
CombinedSummary(sc, denominator, beg_sc, beg_denominator) ==
    LET end_left_pct == Pct(sc.left, denominator)
        end_right_pct == Pct(sc.right, denominator)
        beg_left_pct == Pct(beg_sc.left, beg_denominator)
        beg_right_pct == Pct(beg_sc.right, beg_denominator)
        combined_left_pct == end_left_pct.value + beg_left_pct.value
        combined_right_pct == end_right_pct.value + beg_right_pct.value
    IN  IF \/ end_left_pct.raised \/ end_right_pct.raised
           \/ beg_left_pct.raised \/ beg_right_pct.raised
        THEN [raised |-> TRUE, lines |-> <<>>]
        ELSE [raised |-> FALSE,
              lines |-> <<<<"header", "Combined keyboard side summary:">>,
                          <<"combined", "Left", combined_left_pct>>,
                          <<"combined", "Right", combined_right_pct>>>>]

\* the block "Combined keyboard side summary"
Combined ==
    /\ pc = "combined"
    /\ LET summary == CombinedSummary(side_counts, grand_total,
                                      beg_side_counts, beg_grand_total)
       IN  /\ out' = out \o summary.lines
           /\ pc' = IF summary.raised THEN "ZeroDivisionError" ELSE "done"
    /\ UNCHANGED <<file, sort_count, key_to_side, reader, row_no, word_counts, endings,
                   beginnings, arg, k, acc, total, caller, side_counts, grand_total,
                   beg_side_counts, beg_grand_total, results, sorted_out>>

Next ==
    \/ Open
    \/ LoadRowStep
    \/ LoadReturn
    \/ Endings
    \/ Beginnings
    \/ SummarizeEnter
    \/ SummarizeStep
    \/ ReturnToEndings
    \/ ReturnToBeginnings
    \/ ReportEndings
    \/ ReportBeginnings
    \/ Combined

Spec == Init /\ [][Next]_vars

(***************************************************************************)
(* summarize_sides on its own: any LetterTotals, any letter -> side table, *)
(* called Calls times in a row on the same mapping.                        *)
(***************************************************************************)
Calls == 2

InitSides ==
    /\ file = <<>>
    /\ sort_count = FALSE
    /\ key_to_side \in Layouts
    /\ pc = "call_summarize"
    /\ reader = <<>>
    /\ row_no = 0
    /\ word_counts = <<>>
    /\ endings \in Mappings
    /\ beginnings = <<>>
    /\ arg = <<>>
    /\ k = 0
    /\ acc = NewSideCounts
    /\ total = 0
    /\ caller = "none"
    /\ side_counts = NewSideCounts
    /\ grand_total = 0
    /\ beg_side_counts = NewSideCounts
    /\ beg_grand_total = 0
    /\ out = <<>>
    /\ results = <<>>
    /\ sorted_out = <<>>

\* return side_counts, total
ReturnToHarness ==
    /\ pc = "summarize_loop"
    /\ k > Len(arg)
    /\ caller = "call_summarize"
    /\ results' = Append(results, [side_counts |-> acc, total |-> total])
    /\ pc' = IF Len(results') < Calls THEN "call_summarize" ELSE "done"
    /\ UNCHANGED <<file, sort_count, key_to_side, reader, row_no, word_counts, endings,
                   beginnings, arg, k, acc, total, caller, side_counts, grand_total,
                   beg_side_counts, beg_grand_total, out, sorted_out>>

NextSides ==
    \/ SummarizeEnter
    \/ SummarizeStep
    \/ ReturnToHarness

SpecSides == InitSides /\ [][NextSides]_vars

(***************************************************************************)
(* sort_endings on its own: any LetterTotals, either mode.                 *)
(***************************************************************************)
InitSort ==
    /\ file = <<>>
    /\ sort_count \in BOOLEAN
    /\ key_to_side = KeyToSide
    /\ pc = "call_sort"
    /\ reader = <<>>
    /\ row_no = 0
    /\ word_counts = <<>>
    /\ endings \in Mappings
    /\ beginnings = <<>>
    /\ arg = <<>>
    /\ k = 0
    /\ acc = NewSideCounts
    /\ total = 0
    /\ caller = "none"
    /\ side_counts = NewSideCounts
    /\ grand_total = 0
    /\ beg_side_counts = NewSideCounts
    /\ beg_grand_total = 0
    /\ out = <<>>
    /\ results = <<>>
    /\ sorted_out = <<>>

SortCall ==
    /\ pc = "call_sort"
    /\ sorted_out' = sort_endings(endings, sort_count)
    /\ pc' = "done"
    /\ UNCHANGED <<file, sort_count, key_to_side, reader, row_no, word_counts, endings,
                   beginnings, arg, k, acc, total, caller, side_counts, grand_total,
                   beg_side_counts, beg_grand_total, out, results>>

NextSort == SortCall

SpecSort == InitSort /\ [][NextSort]_vars

(***************************************************************************)
(* Properties.                                                             *)
(***************************************************************************)
Letters == {ascii_lowercase[n] : n \in 1..Len(ascii_lowercase)}

\* the rows the loader's loop has been through
RowsRead == SubSeq(reader, 1, row_no)

Loaded == pc \notin {"open", "load"}

Aggregated == pc \notin {"open", "load", "endings", "beginnings"}

Pairs(d) == {d[n] : n \in 1..Len(d)}

RECURSIVE SumValues(_)
SumValues(d) == IF d = <<>> THEN 0 ELSE Head(d)[2] + SumValues(Tail(d))

\* a row with two fields whose count is an integer
Countable(row) == Len(row) = 2 /\ ParseInt(row[2]).ok

BelowThreshold(row) == Countable(row) /\ ParseInt(row[2]).value < Threshold

NotBelowThreshold(row) == ~BelowThreshold(row)

Kept(row) == Countable(row) /\ ParseInt(row[2]).value >= Threshold

\* C1: every value of the table is >= 500000, and the rows whose count is
\* below 500000 add nothing: the table, and the endings and beginnings
\* totals computed from it, are those of the input without these rows.
C1_ThresholdExclusion ==
    LET without == LoadRows(<<>>, SelectSeq(RowsRead, NotBelowThreshold)) IN
    /\ \A n \in 1..Len(word_counts) : word_counts[n][2] >= Threshold
    /\ word_counts = without
    /\ Aggregated =>
         /\ Pairs(endings) = Pairs(count_word_endings(without))
         /\ Pairs(beginnings) = Pairs(count_word_beginnings(without))
         /\ \A n \in 1..Len(endings) : endings[n][2] >= Threshold
         /\ \A n \in 1..Len(beginnings) : beginnings[n][2] >= Threshold

C1_Witness ==
    /\ pc = "done"
    /\ \E n \in 1..Len(RowsRead) : BelowThreshold(RowsRead[n])
    /\ endings # <<>>

\* the lines of a text, and the fields of a line between its tabs
RECURSIVE SplitOn(_, _, _)
SplitOn(text, sep, piece) ==
    IF text = <<>> THEN <<piece>>
    ELSE IF Head(text) = sep THEN <<piece>> \o SplitOn(Tail(text), sep, <<>>)
    ELSE SplitOn(Tail(text), sep, Append(piece, Head(text)))

\* every line of the model's files ends with a line break
LinesOf(text) ==
    LET pieces == SplitOn(text, NL, <<>>) IN SubSeq(pieces, 1, Len(pieces) - 1)

GoodLine(line) == Countable(SplitOn(line, TAB, <<>>))

\* C2: a line that does not split into exactly two tab-separated fields, or
\* whose count is no integer, is skipped, and the table is the one loaded
\* from the input with those lines removed.
C2_DataQualitySkip ==
    Loaded => word_counts = LoadWordCounts(JoinLines(SelectSeq(LinesOf(file), GoodLine)))

RECURSIVE SumOver(_, _)
SumOver(S, d) ==
    IF S = {} THEN 0
    ELSE LET n == CHOOSE m \in S : TRUE IN d[n][2] + SumOver(S \ {n}, d)

\* the selected character of each word of the table, lowercased ("" for
\* the empty word)
LastChars ==
    [n \in 1..Len(word_counts) |->
        IF word_counts[n][1] = <<>> THEN ""
        ELSE Lower(word_counts[n][1][Len(word_counts[n][1])])]

FirstChars ==
    [n \in 1..Len(word_counts) |->
        IF word_counts[n][1] = <<>> THEN "" ELSE Lower(word_counts[n][1][1])]

\* C3: for every letter of a..z the endings total is the sum of the counts
\* of the non-empty words whose last character, lowercased, is the letter
\* (the beginnings total, of those whose first character is), a letter no
\* word selects has no entry, and every key is a letter of a..z.
C3_LetterAggregation ==
    Aggregated =>
        LET lasts == LastChars
            firsts == FirstChars
            EndsIn(letter) == {n \in 1..Len(word_counts) : lasts[n] = letter}
            BeginsWith(letter) == {n \in 1..Len(word_counts) : firsts[n] = letter}
        IN  /\ Keys(endings) \subseteq Letters
            /\ Keys(beginnings) \subseteq Letters
            /\ \A letter \in Letters :
                /\ Get(endings, letter, 0) = SumOver(EndsIn(letter), word_counts)
                /\ Get(beginnings, letter, 0) = SumOver(BeginsWith(letter), word_counts)
                /\ HasKey(endings, letter) <=> EndsIn(letter) # {}
                /\ HasKey(beginnings, letter) <=> BeginsWith(letter) # {}

\* an upper-case first letter, a last character that is no letter, an empty word
C3_Witness ==
    /\ pc = "done"
    /\ \E n \in 1..Len(word_counts) :
        /\ word_counts[n][1] # <<>>
        /\ InChars(word_counts[n][1][1], ascii_uppercase)
    /\ \/ HasKey(word_counts, Word_b_dash)
       \/ HasKey(word_counts, <<>>)

\* the rows of a word, by their position among the rows read
RowsOf(word) == {n \in 1..Len(RowsRead) : Len(RowsRead[n]) = 2 /\ RowsRead[n][1] = word}

KeptRowsOf(word) == {n \in RowsOf(word) : Kept(RowsRead[n])}

Last(S) == CHOOSE n \in S : \A m \in S : m <= n

WordsRead == {RowsRead[n][1] : n \in {m \in 1..Len(RowsRead) : Len(RowsRead[m]) = 2}}

\* C6 as stated: the entry of a word that is on more than one line is
\* determined by its last line alone: the count written there if that line
\* is kept, no entry if it is not.
C6_LastOccurrenceWins ==
    Loaded =>
        \A word \in WordsRead :
            Cardinality(RowsOf(word)) > 1 =>
                IF Kept(RowsRead[Last(RowsOf(word))])
                THEN Get(word_counts, word, None) =
                         ParseInt(RowsRead[Last(RowsOf(word))][2]).value
                ELSE ~HasKey(word_counts, word)

\* C6: a word in several rows has the count of the last of its rows that is
\* kept (two fields, an integer count >= 500000); a dropped row after it
\* changes nothing, and a word none of whose rows is kept has no entry.
C6_LastKeptOccurrenceWins ==
    \A word \in WordsRead :
        IF KeptRowsOf(word) = {}
        THEN ~HasKey(word_counts, word)
        ELSE Get(word_counts, word, None) =
                 ParseInt(RowsRead[Last(KeptRowsOf(word))][2]).value

\* a word kept twice with different counts
C6_Witness ==
    /\ pc = "done"
    /\ \E word \in WordsRead :
        \E m, n \in KeptRowsOf(word) : m < n /\ RowsRead[m][2] # RowsRead[n][2]

\* the sum of the counts of the letters of d that the table puts in a bucket
RECURSIVE SumBucket(_, _, _)
SumBucket(d, table, bucket) ==
    IF d = <<>> THEN 0
    ELSE LET side == Get(table, Head(d)[1], None)
             here == IF side \in {"left", "right"} THEN side ELSE "unknown"
         IN  (IF here = bucket THEN Head(d)[2] ELSE 0)
                 + SumBucket(Tail(d), table, bucket)

\* C4: for any mapping and any letter -> side table, each count goes to
\* exactly one of left, right and unknown, at every point of the loop the
\* three buckets add up to the running total, and what is returned is the
\* sum of all values with left + right + unknown equal to it.
C4_SidesPartitionTotal ==
    /\ pc = "summarize_loop" =>
         LET seen == SubSeq(arg, 1, k - 1) IN
         /\ total = SumValues(seen)
         /\ acc.left + acc.right + acc.unknown = total
         /\ \A bucket \in {"left", "right", "unknown"} :
                acc[bucket] = SumBucket(seen, key_to_side, bucket)
    /\ \A n \in 1..Len(results) :
         /\ results[n].total = SumValues(endings)
         /\ results[n].side_counts.left + results[n].side_counts.right
                + results[n].side_counts.unknown = results[n].total

\* a table with a value that is neither left nor right, and counts in the
\* unknown and the left bucket
C4_Witness ==
    /\ results # <<>>
    /\ \E n \in 1..Len(key_to_side) : key_to_side[n][2] \notin {"left", "right"}
    /\ results[1].side_counts.unknown > 0
    /\ results[1].side_counts.left > 0

Position(d, item) == CHOOSE n \in 1..Len(d) : d[n] = item

\* C5: sort_endings returns the pairs of its input; alphabetical mode gives
\* strictly ascending letters, count mode non-increasing counts with letters
\* of equal count in the order of the input.
C5_SortStableAndTotal ==
    pc = "done" =>
        /\ Len(sorted_out) = Len(endings)
        /\ Pairs(sorted_out) = Pairs(endings)
        /\ \A m, n \in 1..Len(sorted_out) :
            m < n =>
                IF sort_count
                THEN /\ sorted_out[m][2] >= sorted_out[n][2]
                     /\ sorted_out[m][2] = sorted_out[n][2] =>
                            Position(endings, sorted_out[m]) < Position(endings, sorted_out[n])
                ELSE Ord(sorted_out[m][1]) < Ord(sorted_out[n][1])

\* count mode, on two letters of equal count given in descending order
C5_Witness ==
    /\ pc = "done"
    /\ sort_count
    /\ \E m, n \in 1..Len(sorted_out) :
        /\ m < n
        /\ sorted_out[m][2] = sorted_out[n][2]
        /\ Ord(sorted_out[m][1]) > Ord(sorted_out[n][1])

\* C7: no step of summarize_sides changes the mapping it is given or the
\* letter -> side table, and every call on the same mapping returns the
\* same side counts and total.
C7_SummarizeIsPure ==
    [][ /\ endings' = endings
        /\ key_to_side' = key_to_side
        /\ \A m, n \in 1..Len(results') : results'[m] = results'[n] ]_vars

\* two calls have returned, with counts in more than one bucket
C7_Witness ==
    /\ Len(results) = Calls
    /\ results[1].total > 0
    /\ results[Calls].side_counts.right > 0
    /\ results[Calls].side_counts.left > 0

PrintedSides(section) ==
    SelectSeq(out, LAMBDA line : line[1] = section)

EndingsReported ==
    \/ pc \in {"call_summarize_beginnings", "report_beginnings", "combined", "done"}
    \/ pc = "summarize_loop" /\ caller = "call_summarize_beginnings"

\* C8: no division by zero happens; a summary whose grand total is 0 prints
\* 0 for Left and Right and no Unknown line, and the combined percentages
\* use 0 for its part.
C8_DivisionByZeroGuard ==
    /\ pc # "ZeroDivisionError"
    /\ EndingsReported /\ grand_total = 0 =>
            PrintedSides("endings side") =
                <<<<"endings side", "Left", 0>>, <<"endings side", "Right", 0>>>>
    /\ pc \in {"combined", "done"} /\ beg_grand_total = 0 =>
            PrintedSides("beginnings side") =
                <<<<"beginnings side", "Left", 0>>, <<"beginnings side", "Right", 0>>>>
    /\ pc = "done" =>
         LET part(side_total, denominator) ==
                 IF denominator = 0 THEN 0 ELSE Percent(side_total, denominator).value
         IN  PrintedSides("combined") =
                <<<<"combined", "Left",
                    part(side_counts.left, grand_total)
                        + part(beg_side_counts.left, beg_grand_total)>>,
                  <<"combined", "Right",
                    part(side_counts.right, grand_total)
                        + part(beg_side_counts.right, beg_grand_total)>>>>

\* the endings total is 0 and the beginnings total is not
C8_Witness ==
    /\ pc = "done"
    /\ grand_total = 0
    /\ beg_grand_total # 0

\* C9: the keyboard table puts every letter of a..z on exactly one side, so
\* both summaries have an empty unknown bucket and left + right equal to the
\* grand total, and no Unknown line is printed.
C9_EveryLetterHasASide ==
    /\ \A letter \in Letters : Get(key_to_side, letter, None) \in {"left", "right"}
    /\ \A m, n \in 1..Len(keyboard) :
         \A i \in 1..Len(keyboard[m].left) :
            \A j \in 1..Len(keyboard[n].right) :
                keyboard[m].left[i] # keyboard[n].right[j]
    /\ acc.unknown = 0
    /\ side_counts.unknown = 0
    /\ side_counts.left + side_counts.right = grand_total
    /\ beg_side_counts.unknown = 0
    /\ beg_side_counts.left + beg_side_counts.right = beg_grand_total
    /\ \A n \in 1..Len(out) : out[n][2] # "Unknown"

\* both summaries are printed, with counts on both sides
C9_Witness ==
    /\ pc = "done"
    /\ side_counts.left > 0
    /\ beg_side_counts.right > 0
    /\ beg_side_counts.left > 0

\* summarize_sides as a whole, on the program's table
RECURSIVE Summarized(_, _, _)
Summarized(d, sc, sum) ==
    IF d = <<>> THEN [side_counts |-> sc, total |-> sum]
    ELSE Summarized(Tail(d), SideStep(sc, KeyToSide, Head(d)[1], Head(d)[2]),
                    sum + Head(d)[2])

InOrderOfMode(d, by_count) ==
    \A m, n \in 1..Len(d) :
        m < n => IF by_count THEN d[m][2] >= d[n][2] ELSE Ord(d[m][1]) < Ord(d[n][1])

\* C10: a run sorts both lists in the mode of its flag, and everything else
\* is what the run with the other flag value gets from the same file: the
\* same letter/count pairs in each list, the same side counts and grand
\* totals, and the same lines in the three summaries.
C10_FlagChangesOnlyOrder ==
    pc = "done" =>
        LET other_endings == sort_endings(count_word_endings(word_counts), ~sort_count)
            other_beginnings ==
                sort_endings(count_word_beginnings(word_counts), ~sort_count)
            other == Summarized(other_endings, NewSideCounts, 0)
            other_beg == Summarized(other_beginnings, NewSideCounts, 0)
        IN  /\ InOrderOfMode(endings, sort_count)
            /\ InOrderOfMode(beginnings, sort_count)
            /\ Pairs(endings) = Pairs(other_endings)
            /\ Len(endings) = Len(other_endings)
            /\ Pairs(beginnings) = Pairs(other_beginnings)
            /\ Len(beginnings) = Len(other_beginnings)
            /\ Len(PrintedSides("ending")) = Len(other_endings)
            /\ Len(PrintedSides("beginning")) = Len(other_beginnings)
            /\ side_counts = other.side_counts
            /\ grand_total = other.total
            /\ beg_side_counts = other_beg.side_counts
            /\ beg_grand_total = other_beg.total
            /\ SelectSeq(out, LAMBDA line :
                   line[1] \in {"header", "endings side", "beginnings side", "combined"})
                 = <<<<"header", "Word endings (a-z):">>,
                     <<"header", "Word beginnings (a-z):">>>>
                   \o SideSummary("endings side",
                                  "Keyboard side summary (by letter endings):",
                                  other.side_counts, other.total).lines
                   \o SideSummary("beginnings side",
                                  "Keyboard side summary (by word beginnings):",
                                  other_beg.side_counts, other_beg.total).lines
                   \o CombinedSummary(other.side_counts, other.total,
                                      other_beg.side_counts, other_beg.total).lines

\* a run in count mode whose order is not the alphabetical one
C10_Witness ==
    /\ pc = "done"
    /\ sort_count
    /\ endings # count_word_endings(word_counts)

====
